---- MODULE Spec2Model ----
(***************************************************************************)
(* A model of switchbot/__init__.py: the Switchbot driver object, its      *)
(* command encoder, the recursive retry cycle of _sendCommand and the two  *)
(* notification delegates.  The BLE transport (bluepy) is the environment: *)
(* every transport call either succeeds or raises BTLEException, and the   *)
(* notification wait either times out or delivers one frame to the         *)
(* delegate installed for the attempt.  Notification frames are full       *)
(* length (10 bytes); only bytes 0, 1, 2 and 9 are ever read by the code.  *)
(*                                                                         *)
(* Python values: None is the string "None" where the other values are     *)
(* strings, and the empty sequence where they are numbers or booleans      *)
(* (<<>> is None, <<v>> is the value v).                                   *)
(***************************************************************************)
EXTENDS Integers, Sequences, FiniteSets, TLC

(* ---------------------------------------------------------------- bounds *)
\* Largest retry_count given to the constructor.
MaxRetry == 2
\* Number of public operations invoked on one object in one behaviour.
MaxOps == 2

(* ------------------------------------------------------ module constants *)
CMD_ACTION == 1
CMD_MODE == 2
CMD_INFO == 3
ACTION_PREFIX == "5701"
INFO_PREFIX == "5702"
MODE_PREFIX == "570364"
ACTION_PWD_PREFIX == "5711"
INFO_PWD_PREFIX == "5712"
MODE_PWD_PREFIX == "571364"
ACTION_PRESS == ""
ACTION_ON == "01"
ACTION_OFF == "02"
INFO_GET == ""
MODE_VALUES == {TRUE, FALSE}

None == "None"

(* ------------------------------------------------------------ ActionStatus *)
\* The members of the enumeration and their values.
ActionStatusValue ==
  [complete |-> 1, device_busy |-> 3, device_wrong_mode |-> 5,
   device_unreachable |-> 11, device_encrypted |-> 7, device_unencrypted |-> 8,
   wrong_password |-> 9, unable_resp |-> 254, unable_connect |-> 255]

\* ActionStatus(v) finds a member by value; it raises ValueError when there is none.
IsActionStatus(v) == \E s \in DOMAIN ActionStatusValue : ActionStatusValue[s] = v

ActionStatus(v) == CHOOSE s \in DOMAIN ActionStatusValue : ActionStatusValue[s] = v

(* ------------------------------------------------- crc32 and '%x' rendering *)
\* 32-bit words are functions 0..31 -> {0,1}, bit 0 the least significant.
Word == 0..31

Pow2(k) == IF k = 0 THEN 1 ELSE IF k = 1 THEN 2 ELSE IF k = 2 THEN 4 ELSE 8

WordOfNibbles(h) == [i \in Word |-> (h[8 - (i \div 4)] \div Pow2(i % 4)) % 2]

\* The reflected CRC-32 polynomial 0xEDB88320 and the mask 0xFFFFFFFF.
CrcPoly == WordOfNibbles(<<14, 13, 11, 8, 8, 3, 2, 0>>)

Ones == [i \in Word |-> 1]

Xor(a, b) == [i \in Word |-> (a[i] + b[i]) % 2]

Shr1(a) == [i \in Word |-> IF i = 31 THEN 0 ELSE a[i + 1]]

WordOfByte(c) ==
  [i \in Word |-> IF i < 8 THEN (c \div (Pow2(i % 4) * (IF i < 4 THEN 1 ELSE 16))) % 2 ELSE 0]

RECURSIVE CrcShift(_, _)
CrcShift(w, k) ==
  IF k = 0 THEN w
  ELSE CrcShift(IF w[0] = 1 THEN Xor(Shr1(w), CrcPoly) ELSE Shr1(w), k - 1)

RECURSIVE CrcBytes(_, _)
CrcBytes(w, bytes) ==
  IF bytes = <<>> THEN w
  ELSE CrcBytes(CrcShift(Xor(w, WordOfByte(Head(bytes))), 8), Tail(bytes))

\* binascii.crc32(bytes) & 0xffffffff
Crc32(bytes) == Xor(CrcBytes(Ones, bytes), Ones)

HexDigit(n) == SubSeq("0123456789abcdef", n + 1, n + 1)

Nibble(w, k) == w[4 * k] + 2 * w[4 * k + 1] + 4 * w[4 * k + 2] + 8 * w[4 * k + 3]

RECURSIVE HexFrom(_, _)
HexFrom(w, k) == IF k < 0 THEN "" ELSE HexDigit(Nibble(w, k)) \o HexFrom(w, k - 1)

\* '%x' % w: lowercase hexadecimal without leading zeros.
RECURSIVE TopNibble(_, _)
TopNibble(w, k) == IF k = 0 \/ Nibble(w, k) # 0 THEN k ELSE TopNibble(w, k - 1)

FormatHex(w) == HexFrom(w, TopNibble(w, 7))

\* password.encode('ascii') for the characters used by the model's passwords.
Ord == ("a" :> 97) @@ ("c" :> 99)

AsciiEncode(s) == [i \in 1..Len(s) |-> Ord[SubSeq(s, i, i)]]

\* Passwords given to the constructor: None, the empty string, one whose
\* digest has eight hex digits ("a" -> e8b7be43) and one whose digest has
\* seven ("c" -> 6b9df6f).
Passwords == {None, "", "a", "c"}

PasswordEncoded(password) ==
  IF password = None \/ password = "" THEN None
  ELSE FormatHex(Crc32(AsciiEncode(password)))

(* ---------------------------------------------------------- command encoder *)
\* actionKey without the digest.
actionKeyNoDigest(pe, k) ==
  IF pe = None THEN ACTION_PREFIX \o k ELSE ACTION_PWD_PREFIX \o k

actionKey(pe, k) ==
  IF pe = None THEN ACTION_PREFIX \o k ELSE ACTION_PWD_PREFIX \o pe \o k

modeKey(pe, dm, inv) ==
  IF pe = None
  THEN (IF dm THEN MODE_PREFIX \o "1" \o (IF inv THEN "1" ELSE "0") ELSE MODE_PREFIX \o "00")
  ELSE (IF dm THEN MODE_PWD_PREFIX \o "1" \o (IF inv THEN "1" ELSE "0")
        ELSE MODE_PWD_PREFIX \o "00")

infoKey(pe, k) ==
  IF pe = None THEN INFO_PREFIX \o k ELSE INFO_PWD_PREFIX \o pe \o k

\* The command string _sendCommand builds for cmd (m is <<dual_mode, inverse>>).
EncodeCommand(c, pe, k, m) ==
  IF c = CMD_ACTION THEN actionKey(pe, k)
  ELSE IF c = CMD_MODE THEN modeKey(pe, m[1], m[2])
  ELSE infoKey(pe, k)

\* binascii.a2b_hex accepts a hex string of even length only.
HexDecodes(s) == Len(s) % 2 = 0

(* ------------------------------------------------------ notification frames *)
Byte == 0..255

Frame(b0, b1, b2, b9) ==
  [i \in 0..9 |-> IF i = 0 THEN b0 ELSE IF i = 1 THEN b1 ELSE IF i = 2 THEN b2
                  ELSE IF i = 9 THEN b9 ELSE 0]

\* A comparison in place of the bit test.
BitSetAtLeast(b, mask) == b >= mask

\* bool(b & mask) for a mask of one bit.
BitSet(b, mask) == (b \div mask) % 2 = 1

RECURSIVE DecStr(_)
DecStr(v) == IF v < 10 THEN HexDigit(v) ELSE DecStr(v \div 10) \o HexDigit(v % 10)

RECURSIVE PadLeft(_, _)
PadLeft(s, width) == IF Len(s) >= width THEN s ELSE PadLeft(" " \o s, width)

\* '{:3.1f}'.format(b / 10.0): b tenths, rounded to one fractional digit (exact,
\* the value is a whole number of tenths), at least three characters wide.
FormatFirmware(b) == PadLeft(DecStr(b \div 10) \o "." \o DecStr(b % 10), 3)

(* -------------------------------------------------- notification delegates *)
\* The Action/Mode delegate without the 0xFF case of device_wrong_mode.
ActionOrModeNoSpecialCase(d, data) ==
  LET d1 == [d EXCEPT !.cmd_response = TRUE] IN
  IF ~IsActionStatus(data[0]) THEN [driver |-> d1, raised |-> "ValueError"]
  ELSE LET action_status == ActionStatus(data[0]) IN
    IF action_status # "complete"
    THEN [driver |-> [d1 EXCEPT !.cmd_complete = FALSE, !.cmd_status = action_status],
          raised |-> None]
    ELSE [driver |-> [d1 EXCEPT !.cmd_complete = TRUE], raised |-> None]

\* A delegate that records no status for a wrong-mode response.
ActionOrModeNoStatusOnWrongMode(d, data) ==
  LET d1 == [d EXCEPT !.cmd_response = TRUE] IN
  IF ~IsActionStatus(data[0]) THEN [driver |-> d1, raised |-> "ValueError"]
  ELSE LET action_status == ActionStatus(data[0]) IN
    IF action_status = "complete"
    THEN [driver |-> [d1 EXCEPT !.cmd_complete = TRUE], raised |-> None]
    ELSE IF action_status = "device_wrong_mode"
    THEN [driver |-> [d1 EXCEPT !.cmd_complete = (data[1] = 255)], raised |-> None]
    ELSE [driver |-> [d1 EXCEPT !.cmd_complete = FALSE, !.cmd_status = action_status],
          raised |-> None]

\* A delegate works on the driver's fields d and the frame data; it gives the
\* fields afterwards and the exception it raised, if any.
ActionOrModeHandleNotification(d, data) ==
  LET d1 == [d EXCEPT !.cmd_response = TRUE] IN
  IF ~IsActionStatus(data[0]) THEN [driver |-> d1, raised |-> "ValueError"]
  ELSE LET action_status == ActionStatus(data[0]) IN
    IF action_status # "complete"
    THEN IF action_status = "device_wrong_mode" /\ data[1] = 255
         THEN [driver |-> [d1 EXCEPT !.cmd_complete = TRUE], raised |-> None]
         ELSE [driver |-> [d1 EXCEPT !.cmd_complete = FALSE, !.cmd_status = action_status],
               raised |-> None]
    ELSE [driver |-> [d1 EXCEPT !.cmd_complete = TRUE], raised |-> None]

\* The Info delegate decoding the frame whatever its status.
InfoHandleAlwaysDecode(d, data) ==
  LET d1 == [d EXCEPT !.cmd_response = TRUE] IN
  IF ~IsActionStatus(data[0]) THEN [driver |-> d1, raised |-> "ValueError"]
  ELSE LET action_status == ActionStatus(data[0]) IN
    [driver |-> [d1 EXCEPT !.cmd_complete = (action_status = "complete"),
                           !.cmd_status = IF action_status = "complete" THEN @
                                          ELSE action_status,
                           !.battery_percent = <<data[1]>>,
                           !.dual_mode = BitSet(data[9], 16),
                           !.inverse_mode = BitSet(data[9], 1),
                           !.fw_ver = FormatFirmware(data[2])],
     raised |-> None]

\* An Info delegate that stores the reported mode bit apart from the flag the
\* guards read.
InfoHandleKeepsDualMode(d, data) ==
  LET d1 == [d EXCEPT !.cmd_response = TRUE] IN
  IF ~IsActionStatus(data[0]) THEN [driver |-> d1, raised |-> "ValueError"]
  ELSE LET action_status == ActionStatus(data[0]) IN
    IF action_status # "complete"
    THEN [driver |-> [d1 EXCEPT !.cmd_complete = FALSE, !.cmd_status = action_status],
          raised |-> None]
    ELSE [driver |-> [d1 EXCEPT !.cmd_complete = TRUE,
                                !.battery_percent = <<data[1]>>,
                                !.inverse_mode = BitSet(data[9], 1),
                                !.fw_ver = FormatFirmware(data[2])],
          raised |-> None]

InfoHandleNotification(d, data) ==
  LET d1 == [d EXCEPT !.cmd_response = TRUE] IN
  IF ~IsActionStatus(data[0]) THEN [driver |-> d1, raised |-> "ValueError"]
  ELSE LET action_status == ActionStatus(data[0]) IN
    IF action_status # "complete"
    THEN [driver |-> [d1 EXCEPT !.cmd_complete = FALSE, !.cmd_status = action_status],
          raised |-> None]
    ELSE [driver |-> [d1 EXCEPT !.cmd_complete = TRUE,
                                !.battery_percent = <<data[1]>>,
                                !.dual_mode = BitSet(data[9], 16),
                                !.inverse_mode = BitSet(data[9], 1),
                                !.fw_ver = FormatFirmware(data[2])],
          raised |-> None]

\* The delegate _getInfo or _doActionOrMode installs for the attempt.
HandleNotification(c, d, data) ==
  IF c = CMD_INFO THEN InfoHandleNotification(d, data)
  ELSE ActionOrModeHandleNotification(d, data)

(* ------------------------------------------------------------------- state *)
VARIABLES
  \* fields of the Switchbot object
  device, retry_count, dual_mode, inverse_mode, battery_percent, fw_ver,
  cmd_response, cmd_complete, cmd_status, password_encoded,
  \* the running public operation and the innermost _sendCommand call
  pc, op, cmd, retry, exception, key, mode_args, command, pending,
  \* the current attempt as the transport saw it
  write_result, frame, outcome, disconnect_raised,
  \* per invocation: transport calls made, what every finished attempt was
  n, every_timeout, every_connfail,
  \* transport calls of the current attempt, in order
  events,
  \* the dual-mode bit of the last complete Info frame; the constructor's dual_mode
  info_dual, ctor_dual_mode,
  \* constructor argument, last result, operations left to invoke
  password, ret, opsLeft

objVars == <<device, retry_count, dual_mode, inverse_mode, battery_percent, fw_ver,
             cmd_response, cmd_complete, cmd_status, password_encoded>>
callVars == <<pc, op, cmd, retry, exception, key, mode_args, command, pending>>
attemptVars == <<write_result, frame, outcome, disconnect_raised>>
histVars == <<n, every_timeout, every_connfail>>
modeVars == <<info_dual, ctor_dual_mode>>
vars == <<objVars, callVars, attemptVars, histVars, events, modeVars, password, ret, opsLeft>>

\* What get_battery, get_fw_ver, is_dual_mode and is_inverse_mode report.
DeviceState == <<battery_percent, fw_ver, dual_mode, inverse_mode>>

Driver ==
  [cmd_response |-> cmd_response, cmd_complete |-> cmd_complete, cmd_status |-> cmd_status,
   battery_percent |-> battery_percent, dual_mode |-> dual_mode,
   inverse_mode |-> inverse_mode, fw_ver |-> fw_ver]

NoCalls == [attempts |-> 0, connect |-> 0, enable |-> 0, write |-> 0, wait |-> 0,
            disconnect |-> 0, backoff |-> 0]

\* Retry budgets given to the constructor (the default, 3, is within the
\* budgets once MaxRetry is 3).
RetryBudgets == -1..MaxRetry

\* Switchbot.__init__ with a valid dual_mode.
InitObject(dm, rc, pw) ==
  /\ device = None
  /\ retry_count = rc
  /\ dual_mode = dm
  /\ ctor_dual_mode = dm
  /\ inverse_mode = FALSE
  /\ battery_percent = <<>>
  /\ fw_ver = None
  /\ cmd_response = FALSE
  /\ cmd_complete = FALSE
  /\ cmd_status = None
  /\ password = pw
  /\ password_encoded = PasswordEncoded(pw)

InitIdle ==
  /\ pc = "idle" /\ op = None /\ cmd = 0 /\ retry = 0 /\ exception = FALSE
  /\ key = None /\ mode_args = <<>> /\ command = None /\ pending = None
  /\ write_result = <<>> /\ frame = <<>> /\ outcome = None /\ disconnect_raised = FALSE
  /\ n = NoCalls /\ every_timeout = TRUE /\ every_connfail = TRUE
  /\ events = <<>> /\ info_dual = <<>>
  /\ ret = None

Init ==
  /\ \E dm \in MODE_VALUES, rc \in RetryBudgets, pw \in Passwords : InitObject(dm, rc, pw)
  /\ InitIdle
  /\ opsLeft = MaxOps

(* ------------------------------------------------------------ _sendCommand *)
\* An entry that leaves the completion flag as the previous attempt set it.
EnterSendCommandNoReset(c, r, k, m, n0) ==
  /\ retry' = r - 1
  /\ exception' = FALSE
  /\ cmd_response' = FALSE
  /\ cmd_complete' = cmd_complete
  /\ cmd_status' = None
  /\ cmd' = c /\ key' = k /\ mode_args' = m
  /\ command' = EncodeCommand(c, password_encoded, k, m)
  /\ pending' = None
  /\ write_result' = <<>> /\ frame' = <<>> /\ outcome' = None
  /\ disconnect_raised' = FALSE
  /\ events' = <<>>
  /\ n' = [n0 EXCEPT !.attempts = @ + 1]
  /\ pc' = "connect"
  /\ UNCHANGED <<device, retry_count, dual_mode, inverse_mode, battery_percent, fw_ver,
                 password_encoded, password, modeVars>>

\* Entry of _sendCommand(cmd, retry, key, dual_mode, inverse) up to the try
\* block: one retry credit is taken, the three result fields are reset and the
\* command is encoded.  n0 is the invocation's transport count so far.
EnterSendCommand(c, r, k, m, n0) ==
  /\ retry' = r - 1
  /\ exception' = FALSE
  /\ cmd_response' = FALSE
  /\ cmd_complete' = FALSE
  /\ cmd_status' = None
  /\ cmd' = c /\ key' = k /\ mode_args' = m
  /\ command' = EncodeCommand(c, password_encoded, k, m)
  /\ pending' = None
  /\ write_result' = <<>> /\ frame' = <<>> /\ outcome' = None
  /\ disconnect_raised' = FALSE
  /\ events' = <<>>
  /\ n' = [n0 EXCEPT !.attempts = @ + 1]
  /\ pc' = "connect"
  /\ UNCHANGED <<device, retry_count, dual_mode, inverse_mode, battery_percent, fw_ver,
                 password_encoded, password, modeVars>>

\* A public operation that reaches _sendCommand with the object's retry_count.
StartCommand(o, c, k, m) ==
  /\ op' = o
  /\ ret' = None
  /\ every_timeout' = TRUE /\ every_connfail' = TRUE
  /\ opsLeft' = opsLeft - 1
  /\ EnterSendCommand(c, retry_count, k, m, NoCalls)

\* A public operation that ends before _sendCommand, returning or raising r.
Reject(o, r) ==
  /\ op' = o
  /\ ret' = r
  /\ n' = NoCalls
  /\ every_timeout' = TRUE /\ every_connfail' = TRUE
  /\ opsLeft' = opsLeft - 1
  /\ frame' = <<>> /\ write_result' = <<>> /\ outcome' = None
  /\ disconnect_raised' = FALSE
  /\ events' = <<>>
  /\ UNCHANGED <<objVars, pc, cmd, retry, exception, key, mode_args, command, pending,
                 password, modeVars>>

CanCall == pc = "idle" /\ opsLeft > 0

turn_on ==
  /\ CanCall
  /\ IF ~dual_mode THEN Reject("turn_on", "False")
     ELSE StartCommand("turn_on", CMD_ACTION, ACTION_ON, <<>>)

turn_off ==
  /\ CanCall
  /\ IF ~dual_mode THEN Reject("turn_off", "False")
     ELSE StartCommand("turn_off", CMD_ACTION, ACTION_OFF, <<>>)

\* press without its guard.
press_unguarded ==
  /\ pc = "idle" /\ opsLeft > 0
  /\ op' = "press"
  /\ ret' = None
  /\ every_timeout' = TRUE /\ every_connfail' = TRUE
  /\ opsLeft' = opsLeft - 1
  /\ EnterSendCommand(CMD_ACTION, retry_count, ACTION_PRESS, <<>>, NoCalls)

press ==
  /\ CanCall
  /\ IF dual_mode THEN Reject("press", "False")
     ELSE StartCommand("press", CMD_ACTION, ACTION_PRESS, <<>>)

\* set_mode with both arguments in MODE_VALUES.
set_mode ==
  /\ CanCall
  /\ \E dm \in MODE_VALUES, inv \in MODE_VALUES :
       StartCommand("set_mode", CMD_MODE, None, <<dm, inv>>)

\* set_mode with an argument that is not in MODE_VALUES.
set_mode_invalid ==
  /\ CanCall
  /\ Reject("set_mode", "ValueError")

get_settings ==
  /\ CanCall
  /\ StartCommand("get_settings", CMD_INFO, INFO_GET, <<>>)

\* The try block is left for the finally clause; what the attempt was is kept.
ToFinally(how) ==
  /\ outcome' = how
  /\ pc' = "disconnect"

\* An attempt that goes from the connect straight to the command write.
ConnectThenWrite ==
  /\ pc = "connect"
  /\ IF device # None
     THEN /\ pc' = "write"
          /\ UNCHANGED <<device, exception, n, outcome, events>>
     ELSE /\ n' = [n EXCEPT !.connect = @ + 1]
          /\ events' = Append(events, "connect")
          /\ \/ /\ device' = "Peripheral"
                /\ pc' = "write"
                /\ UNCHANGED <<exception, outcome>>
             \/ /\ device' = None
                /\ exception' = TRUE
                /\ ToFinally("connect_failed")
  /\ UNCHANGED <<retry_count, dual_mode, inverse_mode, battery_percent, fw_ver,
                 cmd_response, cmd_complete, cmd_status, password_encoded,
                 op, cmd, retry, key, mode_args, command, pending,
                 write_result, frame, disconnect_raised, every_timeout, every_connfail,
                 modeVars, password, ret, opsLeft>>

\* _connect: a new Peripheral, or BTLEException with _device left None.
Connect ==
  /\ pc = "connect"
  /\ IF device # None
     THEN /\ pc' = "enable"
          /\ UNCHANGED <<device, exception, n, outcome, events>>
     ELSE /\ n' = [n EXCEPT !.connect = @ + 1]
          /\ events' = Append(events, "connect")
          /\ \/ /\ device' = "Peripheral"
                /\ pc' = "enable"
                /\ UNCHANGED <<exception, outcome>>
             \/ /\ device' = None
                /\ exception' = TRUE
                /\ ToFinally("connect_failed")
  /\ UNCHANGED <<retry_count, dual_mode, inverse_mode, battery_percent, fw_ver,
                 cmd_response, cmd_complete, cmd_status, password_encoded,
                 op, cmd, retry, key, mode_args, command, pending,
                 write_result, frame, disconnect_raised, every_timeout, every_connfail,
                 modeVars, password, ret, opsLeft>>

\* _getInfo / _doActionOrMode: the delegate is set and 0100 is written to
\* handle 0014 to enable notifications.
EnableNotifications ==
  /\ pc = "enable"
  /\ n' = [n EXCEPT !.enable = @ + 1]
  /\ events' = Append(events, "enable")
  /\ \/ /\ pc' = "write"
        /\ UNCHANGED <<exception, outcome>>
     \/ /\ exception' = TRUE
        /\ ToFinally("enable_failed")
  /\ UNCHANGED <<objVars, op, cmd, retry, key, mode_args, command, pending,
                 write_result, frame, disconnect_raised, every_timeout, every_connfail,
                 modeVars, password, ret, opsLeft>>

\* _writeKey: the characteristic is looked up, the command is decoded from hex
\* and written with response; the result of the write is logged and returned
\* (neither caller reads it).
WriteKey ==
  /\ pc = "write"
  /\ \/ /\ exception' = TRUE
        /\ ToFinally("write_failed")
        /\ UNCHANGED <<n, events, pending, write_result>>
     \/ /\ ~HexDecodes(command)
        /\ pending' = "binascii.Error"
        /\ ToFinally("hex_error")
        /\ UNCHANGED <<n, events, exception, write_result>>
     \/ /\ HexDecodes(command)
        /\ n' = [n EXCEPT !.write = @ + 1]
        /\ events' = Append(events, "write")
        /\ \/ /\ exception' = TRUE
              /\ ToFinally("write_failed")
              /\ UNCHANGED <<pending, write_result>>
           \/ /\ \E ack \in BOOLEAN : write_result' = <<ack>>
              /\ pc' = "wait"
              /\ UNCHANGED <<exception, pending, outcome>>
  /\ UNCHANGED <<objVars, op, cmd, retry, key, mode_args, command,
                 frame, disconnect_raised, every_timeout, every_connfail,
                 modeVars, password, ret, opsLeft>>

\* waitForNotifications(3.0) then sleep(1): a timeout, one frame of F handed
\* to the attempt's delegate, or BTLEException.
WaitForNotifications(F) ==
  /\ pc = "wait"
  /\ n' = [n EXCEPT !.wait = @ + 1]
  /\ events' = Append(events, "wait")
  /\ \/ /\ ToFinally("timeout")
        /\ UNCHANGED <<objVars, exception, pending, frame, info_dual>>
     \/ /\ exception' = TRUE
        /\ ToFinally("wait_failed")
        /\ UNCHANGED <<objVars, pending, frame, info_dual>>
     \/ \E data \in F :
          LET h == HandleNotification(cmd, Driver, data) IN
          /\ frame' = <<data>>
          /\ info_dual' = IF cmd = CMD_INFO /\ data[0] = 1
                          THEN <<data[9] % 32 >= 16>> ELSE info_dual
          /\ cmd_response' = h.driver.cmd_response
          /\ cmd_complete' = h.driver.cmd_complete
          /\ cmd_status' = h.driver.cmd_status
          /\ battery_percent' = h.driver.battery_percent
          /\ dual_mode' = h.driver.dual_mode
          /\ inverse_mode' = h.driver.inverse_mode
          /\ fw_ver' = h.driver.fw_ver
          /\ pending' = h.raised
          /\ ToFinally(IF h.raised = None THEN "notified" ELSE "decode_error")
          /\ UNCHANGED <<device, retry_count, password_encoded, exception>>
  /\ UNCHANGED <<op, cmd, retry, key, mode_args, command, write_result,
                 disconnect_raised, every_timeout, every_connfail, ctor_dual_mode,
                 password, ret, opsLeft>>

\* One retry fewer: the credit test off by one.
AfterAttemptFewer(pend, complete, r) ==
  IF pend # None THEN "raise"
  ELSE IF complete THEN "return"
  ELSE IF r > 0 THEN "retry"
  ELSE "return"

\* The credit test before the completion test.
AfterAttemptRetryFirst(pend, complete, r) ==
  IF pend # None THEN "raise"
  ELSE IF r >= 0 THEN "retry"
  ELSE "return"

\* No retry: the first attempt is the last.
AfterAttemptNoRetry(pend, complete, r) ==
  IF pend # None THEN "raise" ELSE "return"

\* A retry test that lets one more attempt through.
AfterAttemptMore(pend, complete, r) ==
  IF pend # None THEN "raise"
  ELSE IF complete THEN "return"
  ELSE IF r >= -1 THEN "retry"
  ELSE "return"

\* What _sendCommand does after the finally clause: "raise" (an exception
\* that is no BTLEException goes on to the caller), "return" or "retry".
AfterAttempt(pend, complete, r) ==
  IF pend # None THEN "raise"
  ELSE IF complete THEN "return"
  ELSE IF r >= 0 THEN "retry"
  ELSE "return"

PyBool(b) == IF b THEN "True" ELSE "False"

\* _disconnect without its finally clause.
DeviceKeptOnError(dev, raised) == IF raised THEN dev ELSE None

\* _device after _disconnect has called disconnect(): the finally clause of
\* _disconnect clears it whether disconnect() raised or not.
DeviceAfterDisconnect(dev, raised) == None

\* The finally clause (_disconnect, where disconnect() returns or raises
\* BTLEException, which is logged) and the rest of _sendCommand up to the
\* backoff sleep or the return.
Disconnect ==
  /\ pc = "disconnect"
  /\ IF device = None
     THEN UNCHANGED <<device, n, disconnect_raised, events>>
     ELSE /\ n' = [n EXCEPT !.disconnect = @ + 1]
          /\ events' = Append(events, "disconnect")
          /\ \/ disconnect_raised' = FALSE
             \/ disconnect_raised' = TRUE
          /\ device' = DeviceAfterDisconnect(device, disconnect_raised')
  /\ every_timeout' = (every_timeout /\ outcome = "timeout")
  /\ every_connfail' = (every_connfail /\ outcome = "connect_failed")
  /\ LET next == AfterAttempt(pending, cmd_complete, retry) IN
       /\ pc' = IF next = "retry" THEN "backoff" ELSE "idle"
       /\ ret' = IF next = "raise" THEN pending
                 ELSE IF next = "return" THEN PyBool(cmd_complete)
                 ELSE ret
  /\ UNCHANGED <<retry_count, dual_mode, inverse_mode, battery_percent, fw_ver,
                 cmd_response, cmd_complete, cmd_status, password_encoded,
                 op, cmd, retry, exception, key, mode_args, command, pending,
                 write_result, frame, outcome, modeVars, password, opsLeft>>

\* time.sleep(DEFAULT_RETRY_TIMEOUT) and the recursive call.
Backoff ==
  /\ pc = "backoff"
  /\ EnterSendCommand(cmd, retry, key, mode_args, [n EXCEPT !.backoff = @ + 1])
  /\ UNCHANGED <<op, every_timeout, every_connfail, ret, opsLeft>>

(* ----------------------------------------------------------- specification *)
\* Frames the device sends: every status value of the enumeration and two
\* bytes outside it, the wrong-mode frame with byte 1 = 0xFF, and complete
\* frames with each combination of the two mode bits.
Frames ==
  {Frame(b0, 77, 21, 17) : b0 \in {0, 1, 2, 3, 5, 7, 8, 9, 11, 254, 255}}
  \cup {Frame(5, 255, 21, 17)}
  \cup {Frame(1, 77, 21, b9) : b9 \in {0, 1, 16, 17}}
  \cup {Frame(1, 100, 4, 0)}

\* Frames over every value of byte 0, of byte 1 beside the wrong-mode status,
\* and of bytes 1, 2 and 9 of a complete frame.
WideFrames ==
  {Frame(b0, 77, 21, 17) : b0 \in Byte}
  \cup {Frame(5, b1, 21, 17) : b1 \in Byte}
  \cup {Frame(1, b1, 21, 17) : b1 \in Byte}
  \cup {Frame(1, 77, b2, 17) : b2 \in Byte}
  \cup {Frame(1, 77, 21, b9) : b9 \in Byte}

Next ==
  \/ turn_on \/ turn_off \/ press \/ set_mode \/ set_mode_invalid \/ get_settings
  \/ Connect \/ EnableNotifications \/ WriteKey \/ WaitForNotifications(Frames)
  \/ Disconnect \/ Backoff

Spec == Init /\ [][Next]_vars

\* One operation on a new object, over the wide set of frames.
InitWide ==
  /\ \E dm \in MODE_VALUES, rc \in {0, 1}, pw \in {None, "a"} : InitObject(dm, rc, pw)
  /\ InitIdle
  /\ opsLeft = 1

NextWide ==
  \/ turn_on \/ turn_off \/ press \/ set_mode \/ set_mode_invalid \/ get_settings
  \/ Connect \/ EnableNotifications \/ WriteKey \/ WaitForNotifications(WideFrames)
  \/ Disconnect \/ Backoff

SpecWide == InitWide /\ [][NextWide]_vars

\* One operation on a new object, with any of the retry budgets.
InitOne ==
  /\ \E dm \in MODE_VALUES, rc \in RetryBudgets, pw \in Passwords : InitObject(dm, rc, pw)
  /\ InitIdle
  /\ opsLeft = 1

\* The steps inside _sendCommand: each is a call of a transport primitive (or
\* the sleep between attempts) followed by the code up to the next call.
AttemptStep ==
  \/ Connect \/ EnableNotifications \/ WriteKey \/ WaitForNotifications(Frames)
  \/ Disconnect \/ Backoff

\* Every transport primitive and the sleep return: a step of _sendCommand that
\* can be taken is taken.
SpecFair == InitOne /\ [][Next]_vars /\ WF_vars(AttemptStep)

(* ------------------------------------------------------------------ claims *)
\* A public operation has ended (returned or raised) and none is running.
Finished == pc = "idle" /\ ret # None

\* The frame handed to the delegate in the current (or last) attempt.
Data == frame[1]

\* C1: with retry budget N >= 0, when every attempt of an invocation ends in a
\* notification timeout (connect and writes went through, nothing was
\* delivered), the invocation makes exactly N+1 attempts, N+1 connects and N+1
\* disconnects and returns False, for every command kind.
C1_TimeoutsMakeNPlus1Attempts ==
  (Finished /\ n.attempts > 0 /\ every_timeout /\ retry_count >= 0)
    => /\ n.attempts = retry_count + 1
       /\ n.connect = retry_count + 1
       /\ n.disconnect = retry_count + 1
       /\ ret = "False"

C1_Witness ==
  /\ Finished /\ every_timeout /\ cmd = CMD_MODE
  /\ retry_count = 2 /\ n.connect = 3 /\ n.disconnect = 3 /\ n.backoff = 2

\* C2: an attempt whose notification wait timed out has the recorded status
\* unable_resp ("no response"), and an invocation whose attempts all timed out
\* ends by returning (no exception) with that status recorded.
C2_TimeoutRecordsNoResponse ==
  /\ (outcome = "timeout") => (cmd_status = "unable_resp")
  /\ (Finished /\ n.attempts > 0 /\ every_timeout)
       => (ret = "False" /\ cmd_status = "unable_resp")

\* The frame is one the delegate of command c interprets as complete.
SuccessFrame(c, data) ==
  \/ data[0] = 1
  \/ c # CMD_INFO /\ data[0] = 5 /\ data[1] = 255

\* C3: once an attempt's notification is interpreted as complete (status 1,
\* or for Action/Mode status 5 with byte 1 = 0xFF), the next step of the
\* operation is the return of True: apart from the disconnect of that attempt
\* no connect, write, wait or backoff is made, whatever credits remain.
C3_CompleteReturnsAtOnce ==
  [][(pc = "disconnect" /\ frame # <<>> /\ SuccessFrame(cmd, Data))
       => /\ pc' = "idle" /\ ret' = "True"
          /\ n'.attempts = n.attempts /\ n'.connect = n.connect
          /\ n'.enable = n.enable /\ n'.write = n.write
          /\ n'.wait = n.wait /\ n'.backoff = n.backoff]_vars

C3_Witness ==
  /\ Finished /\ ret = "True" /\ retry >= 1 /\ n.attempts = 1
  /\ frame # <<>> /\ Data[0] = 5 /\ Data[1] = 255

\* C4: no transport session is open when a backoff wait begins or when a
\* public operation has returned or raised, whatever the attempt was.
C4_SessionClosedAfterAttempt == (pc \in {"backoff", "idle"}) => (device = None)

C4_Witness ==
  /\ pc = "backoff" /\ disconnect_raised /\ device = None /\ n.disconnect = 1
  /\ outcome = "wait_failed"

\* C5: press on a dual-mode device, and turn_on or turn_off on a device that
\* is not dual-mode, return False with no transport call at all.
C5_GuardRejectsWithoutTransport ==
  ((op = "press" /\ dual_mode) \/ (op \in {"turn_on", "turn_off"} /\ ~dual_mode))
    => (pc = "idle" /\ ret = "False" /\ n = NoCalls /\ device = None)

C5_Witness ==
  /\ op = "turn_on" /\ ~dual_mode /\ Finished /\ ret = "False" /\ n = NoCalls
  /\ opsLeft = MaxOps - 1

\* C6: for an Action or Mode command a notification with status 5 and byte 1
\* = 0xFF makes the attempt a success and the operation return True; status 5
\* with any other byte 1 makes it a non-success with status device_wrong_mode.
C6_WrongModeSpecialCase ==
  (cmd \in {CMD_ACTION, CMD_MODE} /\ frame # <<>> /\ Data[0] = 5)
    => IF Data[1] = 255
       THEN cmd_complete /\ (Finished => ret = "True")
       ELSE ~cmd_complete /\ cmd_status = "device_wrong_mode"
            /\ (Finished => ret = "False")

C6_Witness ==
  /\ cmd = CMD_ACTION /\ Finished /\ ret = "True" /\ frame # <<>>
  /\ Data[0] = 5 /\ Data[1] = 255 /\ cmd_status = None

\* The documented status of each recognized byte 0.
DocumentedStatus ==
  (1 :> "complete") @@ (3 :> "device_busy") @@ (5 :> "device_wrong_mode")
  @@ (7 :> "device_encrypted") @@ (8 :> "device_unencrypted")
  @@ (9 :> "wrong_password") @@ (11 :> "device_unreachable")

\* C7: in both delegates byte 0 in {1,3,5,7,8,9,11} maps to its documented
\* status and every other byte 0 is rejected as unrecognized: it raises, sets
\* no status and is no success.
C7_StatusMapping ==
  (frame # <<>>)
    => IF Data[0] \in DOMAIN DocumentedStatus
       THEN /\ pending = None
            /\ IF SuccessFrame(cmd, Data) THEN cmd_complete
               ELSE ~cmd_complete /\ cmd_status = DocumentedStatus[Data[0]]
       ELSE pending = "ValueError" /\ ~cmd_complete /\ cmd_status = None

\* The digest of each password of the model, as binascii.crc32 and '%x' give it.
DocumentedDigest ==
  (None :> None) @@ ("" :> None) @@ ("a" :> "e8b7be43") @@ ("c" :> "6b9df6f")

ModeDigits(m) == IF m[1] THEN (IF m[2] THEN "11" ELSE "10") ELSE "00"

\* C8: the Mode payload is 571364, the digest and the two mode digits on an
\* authenticated device, and 570364 and the two mode digits otherwise.
C8_ModePayload ==
  (pc # "idle" /\ cmd = CMD_MODE)
    => command = IF DocumentedDigest[password] = None
                 THEN "570364" \o ModeDigits(mode_args)
                 ELSE "571364" \o DocumentedDigest[password] \o ModeDigits(mode_args)

ActionSuffix == ("press" :> "") @@ ("turn_on" :> "01") @@ ("turn_off" :> "02")

\* C9: the Action payload is 5701+suffix, or 5711+digest+suffix with a
\* password, the suffix being empty, 01 or 02 for press, on, off; the Info
\* payload is 5702, or 5712+digest; the digest is the one of the constructor's
\* password in every command of the object.
C9_ActionAndInfoPayload ==
  /\ password_encoded = DocumentedDigest[password]
  /\ (pc # "idle" /\ cmd = CMD_ACTION)
       => command = IF DocumentedDigest[password] = None
                    THEN "5701" \o ActionSuffix[op]
                    ELSE "5711" \o DocumentedDigest[password] \o ActionSuffix[op]
  /\ (pc # "idle" /\ cmd = CMD_INFO)
       => command = IF DocumentedDigest[password] = None
                    THEN "5702"
                    ELSE "5712" \o DocumentedDigest[password]

C9_Witness ==
  /\ pc = "wait" /\ op = "turn_off" /\ password = "a" /\ command = "5711e8b7be4302"
  /\ opsLeft = 0 /\ n.backoff = 1

\* C10: after get_settings receives an Info frame with status 1 the device
\* state is the decoded frame (battery byte 1, firmware byte 2 as tens.units,
\* dual mode bit 0x10 and inverse mode bit 0x01 of byte 9), for every value of
\* the three bytes, and get_settings returns True.
C10_InfoRoundTrip ==
  (op = "get_settings" /\ frame # <<>> /\ Data[0] = 1)
    => /\ battery_percent = <<Data[1]>>
       /\ fw_ver = DecStr(Data[2] \div 10) \o "." \o DecStr(Data[2] % 10)
       /\ dual_mode = (Data[9] % 32 >= 16)
       /\ inverse_mode = (Data[9] % 2 = 1)
       /\ Finished => ret = "True"

C10_Witness ==
  /\ op = "get_settings" /\ Finished /\ ret = "True"
  /\ battery_percent = <<77>> /\ fw_ver = "2.1" /\ dual_mode /\ inverse_mode
  /\ frame # <<>> /\ Data[1] = 77 /\ Data[2] = 21 /\ Data[9] = 17

\* C11: the device state (battery, firmware version, dual mode, inverse mode)
\* changes only in the step in which the delegate of an Info command is given
\* a frame with status 1; every other step of every operation (Action, Mode,
\* guard rejection, Info ending otherwise) leaves the four fields as they were.
C11_DeviceStateOnlyFromCompleteInfo ==
  [][(DeviceState' # DeviceState)
       => (cmd = CMD_INFO /\ pc = "wait" /\ frame' # <<>> /\ frame'[1][0] = 1)]_vars

C11_Witness ==
  /\ Finished /\ opsLeft = 0 /\ op = "set_mode" /\ ret = "True"
  /\ mode_args = <<TRUE, TRUE>> /\ ctor_dual_mode
  /\ DeviceState = <<(<<100>>), "0.4", FALSE, FALSE>>

\* C12: an operation that reached _sendCommand never raises: whatever the
\* transport does (connect failure, write failure, timeout, a frame with any
\* byte 0), it ends by returning True or False, and True only when the command
\* completed.  (Stated for commands that decode from hex, so that what is
\* left is the transport's behaviour alone.)
C12_NeverRaises ==
  (Finished /\ n.attempts > 0 /\ HexDecodes(command))
    => (ret \in {"True", "False"} /\ (ret = "True" => cmd_complete))

\* C13: a notification whose byte 0 is no recognized status code (none of
\* 1, 3, 5, 7, 8, 9, 11) is not retried: after the disconnect of that attempt
\* the command ends, whatever credits remain, and it ends in a hard failure
\* (an exception), not in a return of False.
C13_UnrecognizedStatusIsNotRetried ==
  [][(pc = "disconnect" /\ frame # <<>> /\ Data[0] \notin DOMAIN DocumentedStatus)
       => (pc' = "idle" /\ ret' \notin {None, "True", "False"})]_vars

\* C14: a connect failure ends the attempt, not the command: with retry
\* budget N >= 0 and every connect failing, the command makes exactly N+1
\* connect attempts and N backoff waits, issues no write at all and returns
\* False.
C14_ConnectFailureIsRetried ==
  /\ (Finished /\ n.attempts > 0 /\ every_connfail /\ retry_count >= 0)
       => /\ n.connect = retry_count + 1
          /\ n.backoff = retry_count
          /\ n.enable = 0 /\ n.write = 0 /\ n.wait = 0
          /\ ret = "False"
  /\ (pc = "disconnect" /\ outcome = "connect_failed") => (pending = None /\ exception)

C14_Witness ==
  /\ Finished /\ n.attempts = 3 /\ every_connfail /\ retry_count = 2
  /\ n.connect = 3 /\ n.write = 0 /\ ret = "False" /\ op = "get_settings"

\* C15: an attempt whose command write was not acknowledged (the write gave a
\* false result) is a failed attempt: it is no success, whatever notification
\* arrives in it, and the command goes on to a retry while credits remain.
C15_UnacknowledgedWriteFails ==
  (Finished /\ n.attempts > 0 /\ write_result = <<FALSE>> /\ pending = None)
    => (ret = "False" /\ retry < 0)

\* The transport calls of an attempt before its disconnect, in their order.
AttemptOrder == <<"connect", "enable", "write", "wait">>

IsPrefix(a, b) == Len(a) <= Len(b) /\ a = SubSeq(b, 1, Len(a))

Disconnected == events # <<>> /\ events[Len(events)] = "disconnect"

BeforeDisconnect == IF Disconnected THEN SubSeq(events, 1, Len(events) - 1) ELSE events

\* C16: in every attempt the transport calls are made in the order connect,
\* notification-enable write, command write, notification wait, disconnect
\* (an attempt that fails stops short and goes to the disconnect): the command
\* write never comes before the enable write, a write or wait is made only on
\* an open session, and an attempt that got to its wait made all five calls.
C16_TransportOrder ==
  /\ IsPrefix(BeforeDisconnect, AttemptOrder)
  /\ Disconnected => Len(BeforeDisconnect) >= 1
  /\ (pc \in {"enable", "write", "wait"}) => (device # None /\ ~Disconnected)
  /\ (pc \in {"backoff", "idle"} /\ n.wait > 0 /\ n.attempts > 0
        /\ outcome \in {"timeout", "notified", "decode_error", "wait_failed"})
       => events = AttemptOrder \o <<"disconnect">>

C16_Witness ==
  /\ Finished /\ n.attempts = 2 /\ n.wait = 2 /\ n.disconnect = 2
  /\ events = <<"connect", "enable", "write", "wait", "disconnect">>
  /\ outcome = "notified" /\ ret = "True"

\* The dual-mode value that decides the guards: the one the last complete Info
\* response reported, or the constructor's when there was none.
EffectiveDual == IF info_dual = <<>> THEN ctor_dual_mode ELSE info_dual[1]

GuardedOps == {"turn_on", "turn_off", "press"}

\* C17: turn_on and turn_off go on to the transport exactly when the dual-mode
\* value last reported by a successful get_settings (the constructor's value
\* when there was none) is true, and press exactly when it is false; what a
\* set_mode asked for plays no part.
C17_GuardReadsReportedMode ==
  [][(pc = "idle" /\ opsLeft' < opsLeft /\ op' \in GuardedOps)
       => /\ (pc' = "connect") <=> (EffectiveDual <=> (op' # "press"))
          /\ (pc' # "connect") => (pc' = "idle" /\ ret' = "False")]_vars

C17_Witness ==
  /\ op = "press" /\ pc = "connect" /\ opsLeft = 0
  /\ ctor_dual_mode /\ info_dual = <<FALSE>> /\ ~dual_mode

\* C18: a public operation returns True only if in the last attempt of this
\* invocation a notification was delivered and read as success (status 1, or
\* for Action/Mode status 5 with byte 1 = 0xFF); every attempt starts with the
\* completion flag, the response flag and the status cleared, so a success of
\* an earlier attempt or invocation cannot be reported.
C18_TrueOnlyAfterSuccessNotification ==
  /\ (Finished /\ ret = "True")
       => /\ n.attempts > 0 /\ n.wait > 0
          /\ outcome = "notified"
          /\ frame # <<>> /\ SuccessFrame(cmd, Data)
          /\ cmd_complete
  /\ (pc = "connect") => (~cmd_complete /\ ~cmd_response /\ cmd_status = None)
  /\ (pc \in {"connect", "enable", "write"}) => (frame = <<>>)

C18_Witness ==
  /\ Finished /\ ret = "True" /\ opsLeft = 0 /\ n.attempts = 2
  /\ op = "turn_on" /\ frame # <<>> /\ Data[0] = 5 /\ Data[1] = 255

Max(a, b) == IF a >= b THEN a ELSE b

\* The attempts of the invocation in progress are bounded by the budget, and
\* each attempt has taken one credit.
AttemptsBounded ==
  (n.attempts > 0)
    => /\ n.attempts <= Max(retry_count, 0) + 1
       /\ retry = retry_count - n.attempts
       /\ (Finished /\ retry_count <= 0) => n.attempts = 1

\* C19: when every transport primitive returns, every invocation terminates;
\* for every integer budget N (zero and negative included) it makes at most
\* max(N, 0) + 1 attempts, each attempt takes one retry credit, and a budget
\* of zero or less gives exactly one attempt.
C19_TerminatesWithinBudget ==
  /\ []AttemptsBounded
  /\ (pc # "idle") ~> Finished

C19_Witness ==
  /\ Finished /\ retry_count = -1 /\ n.attempts = 1 /\ retry = -2
  /\ outcome = "timeout" /\ ret = "False"

\* The statuses whose message the log line can ask for.
LoggableStatus == {DocumentedStatus[b] : b \in DOMAIN DocumentedStatus}
                    \cup {ActionStatus(254), ActionStatus(255)}

\* The point of _sendCommand after the last attempt where the status message
\* is looked up: nothing was raised, the attempt is not complete, no credit is
\* left, no transport exception was seen and the response flag is set.
AtStatusLog ==
  /\ pc = "disconnect" \/ (Finished /\ n.attempts > 0)
  /\ pending = None /\ ~cmd_complete /\ retry < 0
  /\ ~exception /\ cmd_response

\* A delegate that returns leaves the operation complete or leaves a status
\* that is not complete, whatever the fields were before.
HandlerLeavesStatus ==
  \A data \in Frames :
    LET h == HandleNotification(cmd, Driver, data) IN
    (h.raised = None)
      => /\ h.driver.cmd_response
         /\ h.driver.cmd_complete \/ h.driver.cmd_status \notin {None, "complete"}

\* C20: where _sendCommand logs the status after the last attempt (no
\* transport exception, not complete, response flag set), the recorded status
\* is an ActionStatus other than complete, never None; and a delegate called
\* again in any state of an attempt keeps it so.
C20_StatusSetWhenLogged ==
  /\ AtStatusLog => (cmd_status \in LoggableStatus /\ cmd_status \notin {None, "complete"})
  /\ (pc \in {"wait", "disconnect"}) => HandlerLeavesStatus

C20_Witness ==
  /\ Finished /\ n.attempts = 2 /\ AtStatusLog
  /\ op = "get_settings" /\ cmd_status = "device_busy" /\ ret = "False"

====
